---- MODULE Spec2Model ----
(***************************************************************************)
(* A model of the OrchidETLPipeline: src/etl_pipeline.py (the pipeline     *)
(* run_etl and its seven stages) and src/query_output.py (the read-back    *)
(* of the Parquet output).                                                  *)
(*                                                                         *)
(* A DataFrame is a record [cols, rows]: cols is the ordered sequence of   *)
(* column names, rows the sequence of rows, each row a function from the   *)
(* column names to cell values.  Cell values are strings.  DataFrames live *)
(* in a heap and the local variables of run_etl hold references into it,   *)
(* so that assigning a column of a frame in place is visible through every *)
(* reference to that frame.                                                *)
(***************************************************************************)
EXTENDS Integers, Sequences, FiniteSets, TLC

\* The longest list of profile files and of event files handed to run_etl.
MaxProfiles == 2
MaxEvents == 2

(***************************************************************************)
(* Values                                                                  *)
(***************************************************************************)
\* Python's None, the float NaN pandas fills a missing cell with, and NaT.
None == "<None>"
NaN == "<NaN>"
NaT == "<NaT>"
IsNull(v) == v \in {None, NaN, NaT}

\* The dict objects that occur as a details value, by handle: isinstance(x, dict)
\* is "x is a handle", x.get(f) is the lookup below.
Dicts == [d \in {"dict:1", "dict:2"} |->
            IF d = "dict:1" THEN [page_url |-> "/x", color |-> "red"]
                            ELSE [item_id |-> "i9"]]
IsDict(x) == x \in DOMAIN Dicts
DictGet(x, f) == IF f \in DOMAIN Dicts[x] THEN Dicts[x][f] ELSE None

\* json.dumps of a details value: a dict's JSON text, "null" for None and
\* "NaN" for the float NaN of a missing cell.
JsonDumps(x) ==
    CASE x = "dict:1" -> "{\"page_url\": \"/x\", \"color\": \"red\"}"
      [] x = "dict:2" -> "{\"item_id\": \"i9\"}"
      [] x = None -> "null"
      [] x = NaN -> "NaN"
      [] OTHER -> "\"" \o x \o "\""

\* The strings pd.to_datetime cannot parse.
Unparseable == {"not-a-date"}

\* pd.to_datetime of one cell: a null cell becomes NaT, a timestamp string
\* becomes the instant (shown as pandas prints it).
ToDatetime(v) ==
    CASE IsNull(v) -> NaT
      [] v = "2024-02-01T10:00:00" -> "2024-02-01 10:00:00"
      [] v = "2024-02-01T23:30:00" -> "2024-02-01 23:30:00"
      [] v = "2024-02-02T11:00:00" -> "2024-02-02 11:00:00"
      [] v = "2024-01-01" -> "2024-01-01 00:00:00"
      [] v = "2024-01-05" -> "2024-01-05 00:00:00"

\* Series.dt.date of one cell: the calendar date of the instant, NaT for NaT.
DtDate(t) ==
    CASE t = NaT -> NaT
      [] t \in {"2024-02-01 10:00:00", "2024-02-01 23:30:00"} -> "2024-02-01"
      [] t = "2024-02-02 11:00:00" -> "2024-02-02"

\* Every column name of the model in the order of Python's string comparison,
\* which sorted() uses.
LexOrder ==
    << "button_id", "color", "details", "details_raw", "event_date", "event_id",
       "event_type", "item_id", "location", "location_x", "location_y", "name",
       "page_url", "registration_date", "timestamp", "user_id" >>

(***************************************************************************)
(* Sequences and DataFrames                                                *)
(***************************************************************************)
Range(s) == {s[i] : i \in 1..Len(s)}

RECURSIVE FlattenSeq(_)
FlattenSeq(ss) == IF ss = <<>> THEN <<>> ELSE Head(ss) \o FlattenSeq(Tail(ss))

\* sorted(set(names)): the distinct names in lexicographic order.
Sorted(S) == SelectSeq(LexOrder, LAMBDA n : n \in S)

\* s without the repetitions of an element it already holds.
RECURSIVE Dedup(_)
Dedup(s) ==
    IF s = <<>> THEN <<>>
    ELSE LET r == Dedup(SubSeq(s, 1, Len(s) - 1))
             x == s[Len(s)]
         IN IF x \in Range(r) THEN r ELSE Append(r, x)

HasDuplicates(s) == \E i, j \in 1..Len(s) : i < j /\ s[i] = s[j]

EmptyFrame == [cols |-> <<>>, rows |-> <<>>]

\* df[c] = vals: a new column is appended, an existing one is overwritten.
SetColumn(df, c, vals) ==
    LET cols == IF c \in Range(df.cols) THEN df.cols ELSE Append(df.cols, c)
    IN [cols |-> cols,
        rows |-> [i \in 1..Len(df.rows) |->
                    [k \in Range(cols) |-> IF k = c THEN vals[i] ELSE df.rows[i][k]]]]

\* pd.concat(dfs, ignore_index=True): the union of the columns in the order of
\* their first appearance, the rows in order, a cell a frame lacks filled with NaN.
Concat(dfs) ==
    LET cols == Dedup(FlattenSeq([i \in 1..Len(dfs) |-> dfs[i].cols]))
        widen(df) == [i \in 1..Len(df.rows) |->
                        [k \in Range(cols) |->
                            IF k \in Range(df.cols) THEN df.rows[i][k] ELSE NaN]]
    IN [cols |-> cols, rows |-> FlattenSeq([i \in 1..Len(dfs) |-> widen(dfs[i])])]

(***************************************************************************)
(* The sources                                                             *)
(***************************************************************************)
ProfileCols == << "user_id", "name", "location", "registration_date" >>

ProfileRow(u, n, l, d) ==
    [user_id |-> u, name |-> n, location |-> l, registration_date |-> d]

\* The CSV files a profile path may name: two one-row files and a path with
\* no file.
CsvFiles ==
    { [exists |-> TRUE, cols |-> ProfileCols,
       rows |-> << ProfileRow("u1", "A", "X", "2024-01-01") >>],
      [exists |-> TRUE, cols |-> ProfileCols,
       rows |-> << ProfileRow("u2", "B", "Y", "2024-01-05") >>],
      [exists |-> FALSE, cols |-> <<>>, rows |-> <<>>] }

EventKeys == << "user_id", "event_type", "timestamp", "details" >>

\* The JSON files an event path may name, each holding one event object: the
\* keys timestamp and details are optional in an object, details may be null.
JsonFiles ==
    { [exists |-> TRUE,
       objs |-> << [user_id |-> "u1", event_type |-> "click",
                    timestamp |-> "2024-02-01T10:00:00", details |-> "dict:1"] >>],
      [exists |-> TRUE,
       objs |-> << [user_id |-> "u3", event_type |-> "view",
                    timestamp |-> "2024-02-02T11:00:00", details |-> None] >>],
      [exists |-> TRUE,
       objs |-> << [user_id |-> "u1", event_type |-> "view",
                    timestamp |-> "2024-02-01T23:30:00"] >>],
      [exists |-> TRUE,
       objs |-> << [user_id |-> "u3", event_type |-> "click", details |-> "dict:2"] >>],
      [exists |-> TRUE,
       objs |-> << [user_id |-> "u1", event_type |-> "click",
                    timestamp |-> "not-a-date", details |-> "dict:1"] >>],
      [exists |-> FALSE, objs |-> <<>>] }

\* The lists of extra detail fields run_etl may be given.
FieldChoices ==
    { <<>>, << "color", "location", "page_url" >>, << "details" >>, << "event_type" >> }

SeqsUpTo(S, n) == UNION {[1..k -> S] : k \in 0..n}

(***************************************************************************)
(* The output directory                                                    *)
(***************************************************************************)
\* A Parquet file beneath the output directory: the partition directory it
\* lies in ("" for the output directory itself), its name and its rows.
OldFile ==
    [dir |-> "event_date=2024-02-01", name |-> "old-0.parquet",
     rows |-> << [event_id |-> "old-id"] >>]

\* What the output path may be before the run: nothing, a directory (empty or
\* holding the output of an earlier run), or a regular file.
InitialOutputs ==
    { [kind |-> "absent", files |-> {}],
      [kind |-> "dir", files |-> {}],
      [kind |-> "dir", files |-> {OldFile}],
      [kind |-> "file", files |-> {}] }

VARIABLES
    pc,             \* the stage run_etl executes next, "done" or "failed"
    extract_fields, \* run_etl's argument extract_fields
    heap,           \* the DataFrames allocated so far
    profiles,       \* run_etl's local variables: references into heap (0: unbound)
    events,
    full_data,
    final_df,
    uuidCtr,        \* the number of identifiers uuid.uuid4 has handed out
    fs,             \* the output path on disk
    log,            \* the stages invoked so far, each with whether it returned
    pre,            \* the heap as it was when the latest stage was invoked
    fsPre,          \* the output path as it was when the latest stage was invoked
    queryResult     \* the row count query_output_parquet returned, or a marker

vars == << pc, extract_fields, heap, profiles, events, full_data, final_df,
           uuidCtr, fs, log, pre, fsPre, queryResult >>

locals == << profiles, events, full_data, final_df >>

Init ==
    /\ pc = "load_user_profiles"
    /\ extract_fields \in FieldChoices
    /\ heap = <<>>
    /\ profiles = 0 /\ events = 0 /\ full_data = 0 /\ final_df = 0
    /\ uuidCtr = 0
    /\ fs \in InitialOutputs
    /\ log = <<>>
    /\ pre = <<>>
    /\ fsPre = fs
    /\ queryResult = "not run"

(***************************************************************************)
(* run_etl: the order of the stages and the propagation of a failure       *)
(***************************************************************************)
StageOrder ==
    << "load_user_profiles", "load_user_events", "extract_details_fields",
       "join_data", "generate_event_id", "select_final_columns",
       "write_to_parquet" >>

StageIndex(stage) == CHOOSE i \in 1..Len(StageOrder) : StageOrder[i] = stage

\* A variant of AfterStage that calls a stage again when it raised.
AfterStageRetry(stage, ok) ==
    IF ~ok THEN stage
    ELSE IF StageIndex(stage) = Len(StageOrder) THEN "done"
    ELSE StageOrder[StageIndex(stage) + 1]

\* Where run_etl stands after a stage: at the next statement when the stage
\* returned; nothing catches an exception, so a stage that raised ends the run.
AfterStage(stage, ok) ==
    IF ~ok THEN "failed"
    ELSE IF StageIndex(stage) = Len(StageOrder) THEN "done"
    ELSE StageOrder[StageIndex(stage) + 1]

\* The bookkeeping every stage shares: the heap and the output path as the
\* stage found them, the record of the call, and run_etl's position after it.
Invoke(stage, ok) ==
    /\ pc = stage
    /\ pre' = heap
    /\ fsPre' = fs
    /\ log' = Append(log, [stage |-> stage, ok |-> ok])
    /\ pc' = AfterStage(stage, ok)

(***************************************************************************)
(* load_user_profiles                                                      *)
(***************************************************************************)
\* pd.read_csv(..., parse_dates=['registration_date']) of one file.  The repair
\* of the lines (strip, then strip('"')) leaves the lines of these files, which
\* are well-formed, as they are.
ReadCsv(file) ==
    [cols |-> file.cols,
     rows |-> [i \in 1..Len(file.rows) |->
                 [k \in Range(file.cols) |->
                     IF k = "registration_date" THEN ToDatetime(file.rows[i][k])
                     ELSE file.rows[i][k]]]]

\* open() raises for a path with no file, read_csv for a file without the
\* registration_date column, pd.concat for an empty list of frames.
load_user_profiles(csv_paths) ==
    IF \/ Len(csv_paths) = 0
       \/ \E i \in 1..Len(csv_paths) :
            \/ ~csv_paths[i].exists
            \/ "registration_date" \notin Range(csv_paths[i].cols)
    THEN [ok |-> FALSE, df |-> EmptyFrame]
    ELSE [ok |-> TRUE, df |-> Concat([i \in 1..Len(csv_paths) |-> ReadCsv(csv_paths[i])])]

LoadUserProfiles ==
    \E csv_paths \in SeqsUpTo(CsvFiles, MaxProfiles) :
        LET r == load_user_profiles(csv_paths) IN
        /\ Invoke("load_user_profiles", r.ok)
        /\ IF r.ok
           THEN heap' = Append(heap, r.df) /\ profiles' = Len(heap) + 1
           ELSE UNCHANGED << heap, profiles >>
        /\ UNCHANGED << extract_fields, events, full_data, final_df, uuidCtr, fs,
                        queryResult >>

(***************************************************************************)
(* load_user_events                                                        *)
(***************************************************************************)
\* pd.read_json of one file: a column per key that occurs in some object, a
\* cell whose object lacks the key filled with NaN.
ReadJson(file) ==
    LET keys == UNION {DOMAIN file.objs[i] : i \in 1..Len(file.objs)}
        cols == SelectSeq(EventKeys, LAMBDA k : k \in keys)
    IN [cols |-> cols,
        rows |-> [i \in 1..Len(file.objs) |->
                    [k \in Range(cols) |->
                        IF k \in DOMAIN file.objs[i] THEN file.objs[i][k] ELSE NaN]]]

\* pd.read_json raises for a path with no file, pd.concat for an empty list,
\* df_all['timestamp'] when no object has the key, pd.to_datetime for a string
\* it cannot parse.  A null timestamp cell is no error: it becomes NaT.
load_user_events(json_paths) ==
    IF \/ Len(json_paths) = 0
       \/ \E i \in 1..Len(json_paths) : ~json_paths[i].exists
    THEN [ok |-> FALSE, df |-> EmptyFrame]
    ELSE LET df_all == Concat([i \in 1..Len(json_paths) |-> ReadJson(json_paths[i])])
         IN IF \/ "timestamp" \notin Range(df_all.cols)
               \/ \E i \in 1..Len(df_all.rows) :
                    df_all.rows[i]["timestamp"] \in Unparseable
            THEN [ok |-> FALSE, df |-> EmptyFrame]
            ELSE LET ts == [i \in 1..Len(df_all.rows) |->
                              ToDatetime(df_all.rows[i]["timestamp"])]
                     d1 == SetColumn(df_all, "timestamp", ts)
                 IN [ok |-> TRUE,
                     df |-> SetColumn(d1, "event_date",
                                      [i \in 1..Len(ts) |-> DtDate(ts[i])])]

LoadUserEvents ==
    \E json_paths \in SeqsUpTo(JsonFiles, MaxEvents) :
        LET r == load_user_events(json_paths) IN
        /\ Invoke("load_user_events", r.ok)
        /\ IF r.ok
           THEN heap' = Append(heap, r.df) /\ events' = Len(heap) + 1
           ELSE UNCHANGED << heap, events >>
        /\ UNCHANGED << extract_fields, profiles, full_data, final_df, uuidCtr, fs,
                        queryResult >>

(***************************************************************************)
(* extract_details_fields                                                  *)
(***************************************************************************)
DefaultFields == << "page_url", "button_id", "item_id" >>

\* sorted(set(default_fields + (fields if fields else []))).
AllFields(fields) == Sorted(Range(DefaultFields) \cup Range(fields))

\* The loop of lines 64-65: each field in turn is read out of the details
\* column as it stands at that iteration and assigned as a column.
RECURSIVE ProjectFields(_, _)
ProjectFields(df, fields) ==
    IF fields = <<>> THEN df
    ELSE LET f == Head(fields)
             vals == [i \in 1..Len(df.rows) |->
                        IF IsDict(df.rows[i]["details"])
                        THEN DictGet(df.rows[i]["details"], f)
                        ELSE None]
         IN ProjectFields(SetColumn(df, f, vals), Tail(fields))

\* df['details'] raises KeyError when the frame has no details column, before
\* anything is assigned.  Otherwise the frame handed in is the frame returned,
\* with its columns assigned in place.
extract_details_fields(df, fields) ==
    IF "details" \notin Range(df.cols)
    THEN [ok |-> FALSE, df |-> df]
    ELSE LET raw == [i \in 1..Len(df.rows) |-> JsonDumps(df.rows[i]["details"])]
         IN [ok |-> TRUE,
             df |-> ProjectFields(SetColumn(df, "details_raw", raw), AllFields(fields))]

ExtractDetailsFields ==
    LET r == extract_details_fields(heap[events], extract_fields) IN
    /\ Invoke("extract_details_fields", r.ok)
    /\ heap' = [heap EXCEPT ![events] = r.df]
    /\ UNCHANGED << extract_fields, locals, uuidCtr, fs, queryResult >>

(***************************************************************************)
(* join_data                                                               *)
(***************************************************************************)
\* Two merge keys match when they are equal; pandas also matches a null key
\* with a null key.
KeyEq(a, b) == a = b \/ (IsNull(a) /\ IsNull(b))

\* The indices of the rows of right whose user_id matches key, in order.
Matches(right, key) ==
    SelectSeq([j \in 1..Len(right.rows) |-> j],
              LAMBDA j : KeyEq(right.rows[j]["user_id"], key))

\* The columns of left.merge(right, on='user_id', how=...): the left columns,
\* then the right columns but the key; a name both sides have gets the suffix
\* _x on the left and _y on the right.  src names the column a cell comes from.
MergeColumns(left, right) ==
    LET L == [a \in 1..Len(left.cols) |->
                LET c == left.cols[a]
                IN [name |-> IF c # "user_id" /\ c \in Range(right.cols)
                             THEN c \o "_x" ELSE c,
                    side |-> "left", src |-> c]]
        rc == SelectSeq(right.cols, LAMBDA c : c # "user_id")
        R == [b \in 1..Len(rc) |->
                [name |-> IF rc[b] \in Range(left.cols) THEN rc[b] \o "_y" ELSE rc[b],
                 side |-> "right", src |-> rc[b]]]
    IN L \o R

\* One row of the merge: the cells of the left row e and of the right row p,
\* NaN in the right columns when matched is false.
MergeRow(mcols, e, p, matched) ==
    [k \in {mcols[a].name : a \in 1..Len(mcols)} |->
        LET m == mcols[CHOOSE a \in 1..Len(mcols) : mcols[a].name = k]
        IN IF m.side = "left" THEN e[m.src]
           ELSE IF matched THEN p[m.src] ELSE NaN]

\* A variant of Merge for how='inner': a left row without a match is dropped.
MergeInner(left, right) ==
    LET mcols == MergeColumns(left, right)
        block(i) ==
            LET e == left.rows[i]
                ms == Matches(right, e["user_id"])
            IN [j \in 1..Len(ms) |-> MergeRow(mcols, e, right.rows[ms[j]], TRUE)]
    IN [cols |-> [a \in 1..Len(mcols) |-> mcols[a].name],
        rows |-> FlattenSeq([i \in 1..Len(left.rows) |-> block(i)])]

\* left.merge(right, on='user_id', how='left'): the left rows in order, each
\* once per matching right row, or once with NaN right cells when none matches.
Merge(left, right) ==
    LET mcols == MergeColumns(left, right)
        block(i) ==
            LET e == left.rows[i]
                ms == Matches(right, e["user_id"])
            IN IF ms = <<>> THEN << MergeRow(mcols, e, e, FALSE) >>
               ELSE [j \in 1..Len(ms) |-> MergeRow(mcols, e, right.rows[ms[j]], TRUE)]
    IN [cols |-> [a \in 1..Len(mcols) |-> mcols[a].name],
        rows |-> FlattenSeq([i \in 1..Len(left.rows) |-> block(i)])]

\* merge raises KeyError when a side has no user_id column.
join_data(profiles_df, events_df) ==
    IF "user_id" \notin Range(events_df.cols) \/ "user_id" \notin Range(profiles_df.cols)
    THEN [ok |-> FALSE, df |-> EmptyFrame]
    ELSE [ok |-> TRUE, df |-> Merge(events_df, profiles_df)]

JoinData ==
    LET r == join_data(heap[profiles], heap[events]) IN
    /\ Invoke("join_data", r.ok)
    /\ IF r.ok
       THEN heap' = Append(heap, r.df) /\ full_data' = Len(heap) + 1
       ELSE UNCHANGED << heap, full_data >>
    /\ UNCHANGED << extract_fields, profiles, events, final_df, uuidCtr, fs,
                    queryResult >>

(***************************************************************************)
(* generate_event_id                                                       *)
(***************************************************************************)
\* str(uuid.uuid4()) of the n-th call: a random 128-bit identifier.  Two calls
\* returning the same identifier is not modelled.
Uuid4(n) == "uuid-" \o ToString(n)

\* A variant of EventIds that draws one identifier and gives it to every row.
EventIdsShared(n, ctr) == [i \in 1..n |-> Uuid4(ctr + 1)]

\* [str(uuid.uuid4()) for _ in range(len(df))]: one call per row, ctr calls
\* having been made before.
EventIds(n, ctr) == [i \in 1..n |-> Uuid4(ctr + i)]

\* The frame handed in is the frame returned, its event_id column assigned in place.
generate_event_id(df, ctr) == SetColumn(df, "event_id", EventIds(Len(df.rows), ctr))

GenerateEventId ==
    /\ Invoke("generate_event_id", TRUE)
    /\ heap' = [heap EXCEPT ![full_data] = generate_event_id(heap[full_data], uuidCtr)]
    /\ uuidCtr' = uuidCtr + Len(heap[full_data].rows)
    /\ UNCHANGED << extract_fields, locals, fs, queryResult >>

(***************************************************************************)
(* select_final_columns                                                    *)
(***************************************************************************)
BaseColumns ==
    << "event_id", "user_id", "name", "location", "registration_date",
       "event_type", "timestamp", "event_date", "details_raw" >>

\* df[cols]: a new frame of the named columns, in that order.
Select(df, cols) ==
    [cols |-> cols,
     rows |-> [i \in 1..Len(df.rows) |-> [k \in Range(cols) |-> df.rows[i][k]]]]

\* A variant of select_final_columns that leaves the dynamic fields in the
\* order the caller gave them, after the defaults.
select_final_columns_unsorted(df, extra_fields) ==
    LET final_columns == BaseColumns \o Dedup(DefaultFields \o extra_fields)
    IN Select(df, SelectSeq(final_columns, LAMBDA col : col \in Range(df.cols)))

select_final_columns(df, extra_fields) ==
    LET final_columns == BaseColumns \o AllFields(extra_fields)
        available_columns == SelectSeq(final_columns, LAMBDA col : col \in Range(df.cols))
    IN Select(df, available_columns)

SelectFinalColumns ==
    /\ Invoke("select_final_columns", TRUE)
    /\ heap' = Append(heap, select_final_columns(heap[full_data], extract_fields))
    /\ final_df' = Len(heap) + 1
    /\ UNCHANGED << extract_fields, profiles, events, full_data, uuidCtr, fs,
                    queryResult >>

(***************************************************************************)
(* write_to_parquet                                                        *)
(***************************************************************************)
\* The directory of a partition: event_date=<value>; a null value has the
\* directory of the default partition.
PartitionDir(d) ==
    "event_date=" \o (IF IsNull(d) THEN "__HIVE_DEFAULT_PARTITION__" ELSE d)

\* What the Parquet writer does with the rows whose partition value is null
\* depends on the pyarrow at hand: it drops them or writes the default partition.
NullPolicies == {"drop", "default_partition"}

\* df.to_parquet(path, partition_cols=['event_date'], index=False): one file
\* per distinct event_date, in that value's directory, holding the rows of that
\* value without the partition column; the files of one call share a fresh
\* name, so that no file already there is replaced.
PartitionedFiles(df, guid, nullPolicy) ==
    LET dates == {df.rows[i]["event_date"] : i \in 1..Len(df.rows)}
        kept == IF nullPolicy = "drop" THEN {d \in dates : ~IsNull(d)} ELSE dates
        data == SelectSeq(df.cols, LAMBDA c : c # "event_date")
    IN { [dir |-> PartitionDir(d), name |-> guid \o "-0.parquet",
          rows |-> Select([cols |-> df.cols,
                           rows |-> SelectSeq(df.rows, LAMBDA r : r["event_date"] = d)],
                          data).rows] : d \in kept }

\* path.mkdir(parents=True, exist_ok=True) raises when the path is a regular
\* file and otherwise leaves a directory; to_parquet raises for a frame with a
\* repeated column name, or without the partition column, after the mkdir.
write_to_parquet(df, out, partition_by_date, guid, nullPolicy) ==
    IF out.kind = "file" THEN [ok |-> FALSE, fs |-> out]
    ELSE LET made == [kind |-> "dir", files |-> out.files] IN
         IF HasDuplicates(df.cols) THEN [ok |-> FALSE, fs |-> made]
         ELSE IF partition_by_date
         THEN IF "event_date" \notin Range(df.cols) THEN [ok |-> FALSE, fs |-> made]
              ELSE [ok |-> TRUE,
                    fs |-> [made EXCEPT !.files =
                                @ \cup PartitionedFiles(df, guid, nullPolicy)]]
         ELSE [ok |-> TRUE,
               fs |-> [made EXCEPT !.files =
                         {f \in @ : ~(f.dir = "" /\ f.name = "output.parquet")}
                         \cup {[dir |-> "", name |-> "output.parquet", rows |-> df.rows]}]]

WriteToParquet ==
    \E nullPolicy \in NullPolicies :
        LET r == write_to_parquet(heap[final_df], fs, TRUE, Uuid4(uuidCtr + 1), nullPolicy) IN
        /\ Invoke("write_to_parquet", r.ok)
        /\ fs' = r.fs
        /\ uuidCtr' = uuidCtr + 1
        /\ UNCHANGED << extract_fields, heap, locals, queryResult >>

(***************************************************************************)
(* query_output_parquet                                                    *)
(***************************************************************************)
RECURSIVE CountRows(_)
CountRows(files) ==
    IF files = {} THEN 0
    ELSE LET f == CHOOSE f \in files : TRUE
         IN Len(f.rows) + CountRows(files \ {f})

\* The query SELECT COUNT(*) FROM '{parquet_path}': the placeholder becomes
\* the glob <path>/**/*.parquet, which names every Parquet file beneath the path.
\* A path that does not exist raises FileNotFoundError; a glob that names no
\* file makes the query fail, which is raised as RuntimeError.
query_output_parquet(out) ==
    IF out.kind = "absent" THEN "FileNotFoundError"
    ELSE IF out.kind = "file" \/ out.files = {} THEN "RuntimeError"
    ELSE ToString(CountRows(out.files))

\* The query utility, run on the output directory once run_etl has returned.
QueryOutputParquet ==
    /\ pc = "done"
    /\ queryResult = "not run"
    /\ queryResult' = query_output_parquet(fs)
    /\ UNCHANGED << pc, extract_fields, heap, locals, uuidCtr, fs, log, pre, fsPre >>

Next ==
    \/ LoadUserProfiles
    \/ LoadUserEvents
    \/ ExtractDetailsFields
    \/ JoinData
    \/ GenerateEventId
    \/ SelectFinalColumns
    \/ WriteToParquet
    \/ QueryOutputParquet

Spec == Init /\ [][Next]_vars

(***************************************************************************)
(* Properties                                                              *)
(***************************************************************************)
\* The latest stage invoked is stage; it returned (it did not raise).
JustRan(stage) == Len(log) > 0 /\ log[Len(log)].stage = stage
Returned(stage) == JustRan(stage) /\ log[Len(log)].ok

\* The set of dynamic detail fields: the defaults united with the caller's list.
EffectiveFields == {"page_url", "button_id", "item_id"} \cup Range(extract_fields)

\* ---- C1 ----------------------------------------------------------------
RECURSIVE C1_Sum(_)
C1_Sum(s) == IF s = <<>> THEN 0 ELSE Head(s) + C1_Sum(Tail(s))

\* The number of profile rows whose user_id equals that of the event row e.
C1_MatchCount(P, e) ==
    Cardinality({j \in 1..Len(P.rows) : P.rows[j]["user_id"] = e["user_id"]})

\* The output row r carries the cells of the event row e and, in the columns
\* that come from the profiles, the cells of the profile row p (matched) or
\* nulls (not matched).  A column name both inputs have is told apart by the
\* suffixes _x (event) and _y (profile).
C1_Carries(r, E, P, e, p, matched) ==
    /\ \A c \in Range(E.cols) :
          r[IF c # "user_id" /\ c \in Range(P.cols) THEN c \o "_x" ELSE c] = e[c]
    /\ \A c \in Range(P.cols) \ {"user_id"} :
          LET v == r[IF c \in Range(E.cols) THEN c \o "_y" ELSE c]
          IN IF matched THEN v = p[c] ELSE IsNull(v)

\* C1: join_data(P, E) holds, for each event row, one row per profile row with
\* the same user_id, and one row with null profile fields when no profile row
\* has it; the row count is the sum over the event rows of max(1, matches).
C1_LeftJoinKeepsEveryEvent ==
    JustRan("join_data") =>
        LET P == pre[profiles]
            E == pre[events]
            J == heap[full_data]
            n(i) == C1_MatchCount(P, E.rows[i])
        IN /\ log[Len(log)].ok
           /\ Len(J.rows) =
                C1_Sum([i \in 1..Len(E.rows) |-> IF n(i) = 0 THEN 1 ELSE n(i)])
           /\ \A k \in 1..Len(J.rows) :
                LET r == J.rows[k] IN
                Cardinality({m \in 1..Len(J.rows) : J.rows[m] = r}) =
                    Cardinality({ij \in (1..Len(E.rows)) \X (1..Len(P.rows)) :
                                   /\ P.rows[ij[2]]["user_id"] = E.rows[ij[1]]["user_id"]
                                   /\ C1_Carries(r, E, P, E.rows[ij[1]], P.rows[ij[2]], TRUE)})
                    + Cardinality({i \in 1..Len(E.rows) :
                                   /\ n(i) = 0
                                   /\ C1_Carries(r, E, P, E.rows[i], E.rows[i], FALSE)})

\* A join in which one event row has two matching profile rows and another none.
C1_Witness ==
    /\ Returned("join_data")
    /\ \E i, k \in 1..Len(pre[events].rows) :
          /\ C1_MatchCount(pre[profiles], pre[events].rows[i]) = 2
          /\ C1_MatchCount(pre[profiles], pre[events].rows[k]) = 0

\* ---- C2 ----------------------------------------------------------------
C2_DistinctIds(df) ==
    /\ "event_id" \in Range(df.cols)
    /\ \A i \in 1..Len(df.rows) : ~IsNull(df.rows[i]["event_id"])
    /\ \A i, k \in 1..Len(df.rows) :
          i # k => df.rows[i]["event_id"] # df.rows[k]["event_id"]

\* C2: once generate_event_id has run, every row of the joined set, and of the
\* final set selected from it, has an event_id, and no two rows share one.
C2_EventIdsDistinct ==
    /\ Len(log) >= 5 => C2_DistinctIds(heap[full_data])
    /\ final_df # 0 => C2_DistinctIds(heap[final_df])

\* Identifiers given to two rows the join made of the same event and of two
\* equal profile rows: the rows differ in nothing but the event_id.
C2_Witness ==
    /\ JustRan("generate_event_id")
    /\ \E i, k \in 1..Len(heap[full_data].rows) :
          /\ i # k
          /\ pre[full_data].rows[i] = pre[full_data].rows[k]

\* ---- C5 ----------------------------------------------------------------
\* C5: select_final_columns does not raise; its columns are the names of the
\* list (the nine base names, then the sorted distinct dynamic fields) that the
\* working set has, in the order of the list, and its rows hold the cells the
\* working set has in those columns.
C5_ProjectionTolerant ==
    JustRan("select_final_columns") =>
        LET In == pre[full_data]
            Out == heap[final_df]
            has(c) == c \in Range(In.cols)
        IN /\ log[Len(log)].ok
           /\ Out.cols =
                SelectSeq(<< "event_id", "user_id", "name", "location",
                             "registration_date", "event_type", "timestamp",
                             "event_date", "details_raw" >>, has)
                \o SelectSeq(LexOrder, LAMBDA c : c \in EffectiveFields /\ has(c))
           /\ Len(Out.rows) = Len(In.rows)
           /\ \A i \in 1..Len(Out.rows) :
                /\ DOMAIN Out.rows[i] = Range(Out.cols)
                /\ \A c \in Range(Out.cols) : Out.rows[i][c] = In.rows[i][c]

\* A projection of a working set that lacks the expected column location and
\* has a column outside the list.
C5_Witness ==
    /\ JustRan("select_final_columns")
    /\ "location" \notin Range(pre[full_data].cols)
    /\ "location_y" \in Range(pre[full_data].cols)
    /\ "location_y" \notin Range(heap[final_df].cols)
    /\ Len(heap[final_df].rows) >= 2

\* ---- C10 ---------------------------------------------------------------
\* C10: the stages are invoked in the fixed order, each after the one before it
\* returned; a stage that raises is the last one invoked and leaves run_etl
\* failed; the output path is touched only once the writer is invoked, which
\* takes the six stages before it to have returned.
C10_FixedOrderFailFast ==
    /\ Len(log) <= Len(StageOrder)
    /\ \A i \in 1..Len(log) : log[i].stage = StageOrder[i]
    /\ \A i \in 1..Len(log) : i < Len(log) => log[i].ok
    /\ pc = "failed" <=> (Len(log) > 0 /\ ~log[Len(log)].ok)
    /\ pc = "done" <=> (Len(log) = Len(StageOrder) /\ log[Len(log)].ok)
    /\ pc \notin {"failed", "done"} => pc = StageOrder[Len(log) + 1]
    /\ Len(log) < Len(StageOrder) => fs = fsPre
    /\ fs # fsPre =>
          /\ JustRan("write_to_parquet")
          /\ \A i \in 1..6 : log[i].ok

\* A run that failed in the flattener: the two stages before it returned, no
\* later stage was invoked and the output path is as it was.
C10_Witness ==
    /\ pc = "failed"
    /\ JustRan("extract_details_fields")
    /\ fs = fsPre

\* ---- C3 ----------------------------------------------------------------
\* The details cell of row i of the frame extract_details_fields was given:
\* the NaN of a missing cell when the frame has no details column at all.
DetailsIn(i) ==
    IF "details" \in Range(pre[events].cols) THEN pre[events].rows[i]["details"] ELSE NaN

\* C3: extract_details_fields does not fail, and every row it returns has a
\* details_raw text: the serialization of the row's details map, or that of
\* "no value" when the row has no details.
C3_DetailsRawNeverAbsent ==
    JustRan("extract_details_fields") =>
        /\ log[Len(log)].ok
        /\ "details_raw" \in Range(heap[events].cols)
        /\ \A i \in 1..Len(heap[events].rows) :
              /\ ~IsNull(heap[events].rows[i]["details_raw"])
              /\ heap[events].rows[i]["details_raw"] = JsonDumps(DetailsIn(i))

\* ---- C4 ----------------------------------------------------------------
\* details[f] of a details cell d: the value under key f of a map that has the
\* key, null for a map without it and for a cell that is no map.
C4_Lookup(d, f) ==
    IF d \in {"dict:1", "dict:2"} /\ f \in DOMAIN Dicts[d] THEN Dicts[d][f] ELSE None

C4_Projected ==
    \A f \in EffectiveFields :
        /\ f \in Range(heap[events].cols)
        /\ \A i \in 1..Len(heap[events].rows) :
              heap[events].rows[i][f] = C4_Lookup(DetailsIn(i), f)

\* C4: when extract_details_fields returns, the column of every field f of the
\* effective set holds details[f], row by row: the value under key f of a
\* details map that has the key, null otherwise.
C4_ProjectionWhenReturned ==
    Returned("extract_details_fields") => C4_Projected

\* The same together with the part that the stage does not raise.
C4_ProjectionTotal ==
    JustRan("extract_details_fields") => log[Len(log)].ok /\ C4_Projected

\* ---- C8 ----------------------------------------------------------------
C8_Frame ==
    LET In == pre[events]
        Out == heap[events]
    IN /\ Len(Out.rows) = Len(In.rows)
       /\ Len(Out.cols) = Len(In.cols) + 1 + Cardinality(EffectiveFields)
       /\ \A c \in Range(In.cols) :
             /\ c \in Range(Out.cols)
             /\ \A i \in 1..Len(In.rows) : Out.rows[i][c] = In.rows[i][c]

\* C8: the record set extract_details_fields returns has as many rows as the
\* one it was given and 1 + |effective field set| more columns, and every
\* column it was given keeps its name and its values.
C8_FrameWhenReturned ==
    Returned("extract_details_fields") => C8_Frame

\* The same together with the stage returning at all.
C8_RowsKeptColumnsAdded ==
    JustRan("extract_details_fields") => log[Len(log)].ok /\ C8_Frame

\* ---- C9 ----------------------------------------------------------------
TransformStages ==
    {"extract_details_fields", "join_data", "generate_event_id", "select_final_columns"}

\* C9: when a transform stage has returned, every record set that existed when
\* it was invoked has the columns and the values it had then.
C9_StagesDoNotMutateInput ==
    Len(log) > 0 /\ log[Len(log)].stage \in TransformStages =>
        \A id \in 1..Len(pre) : heap[id] = pre[id]

\* The same of the two stages that build their result with merge and df[cols].
C9_JoinAndSelectDoNotMutate ==
    Len(log) > 0 /\ log[Len(log)].stage \in {"join_data", "select_final_columns"} =>
        \A id \in 1..Len(pre) : heap[id] = pre[id]

\* ---- C7 ----------------------------------------------------------------
\* C7: load_user_events fails, or every row it returns has a parsed timestamp
\* and the calendar date of that timestamp as its event_date.
C7_TimestampParsedOrFail ==
    Returned("load_user_events") =>
        \A i \in 1..Len(heap[events].rows) :
            LET r == heap[events].rows[i] IN
            /\ ~IsNull(r["timestamp"])
            /\ ~IsNull(r["event_date"])
            /\ r["event_date"] = DtDate(r["timestamp"])

\* ---- C6 ----------------------------------------------------------------
\* The files the latest stage added beneath the output directory.
NewFiles == fs.files \ fsPre.files

\* C6: after a partitioned write, reading every file beneath the output
\* directory back counts as many rows as the final record set has, whether or
\* not the directory existed before; every record is in one file, that of its
\* event_date, and there is one partition directory per distinct event_date.
C6_RoundTripRowCount ==
    queryResult # "not run" =>
        LET df == heap[final_df] IN
        /\ queryResult = ToString(Len(df.rows))
        /\ \A i \in 1..Len(df.rows) :
              Cardinality({f \in NewFiles :
                  \E k \in 1..Len(f.rows) :
                      f.rows[k]["event_id"] = df.rows[i]["event_id"]}) = 1
        /\ \A f \in NewFiles : \A k \in 1..Len(f.rows) :
              \E i \in 1..Len(df.rows) :
                  /\ df.rows[i]["event_id"] = f.rows[k]["event_id"]
                  /\ f.dir = "event_date=" \o df.rows[i]["event_date"]
        /\ Cardinality({f.dir : f \in NewFiles}) =
              Cardinality({df.rows[i]["event_date"] : i \in 1..Len(df.rows)})

\* The same of a write of rows that all have an event_date, to a path beneath
\* which no Parquet file lay before.
C6_RoundTripFreshOutput ==
    /\ queryResult # "not run"
    /\ fsPre.files = {}
    /\ \A i \in 1..Len(heap[final_df].rows) : ~IsNull(heap[final_df].rows[i]["event_date"])
    => C6_RoundTripRowCount
====
